---- MODULE Spec2Model ----
(***************************************************************************)
(* A model of SceneManager (src/SceneManager.cpp): the texture registry    *)
(* (m_textureIDs / m_loadedTextures), the material table                   *)
(* (m_objectMaterials), the shader-uniform state the binding operations    *)
(* push into, the part of the OpenGL state the registry touches, and the   *)
(* PrepareScene / RenderScene call sequences.                              *)
(*                                                                         *)
(* Floating point values are written in thousandths (0.3f is 300, 16.0f is *)
(* 16000); GPU texture names are the positive integers glGenTextures hands *)
(* out, in order.                                                          *)
(***************************************************************************)
EXTENDS Integers, Sequences, FiniteSets, TLC

\* ------------------------------------------------------------------ bounds
\* texture names glGenTextures may hand out after the initial state
MaxGen == 3
\* calls of DefineObjectMaterials
MaxDefine == 2
\* frames RenderScene is counted for (the counter saturates there)
MaxFrames == 2

\* ------------------------------------------------------- program constants
\* size of the m_textureIDs array ("There are up to 16 slots")
MaxTextures == 16
\* the value FindTextureID / FindTextureSlot start from and return on a miss
NotFound == -1

\* -------------------------------------------------------------- input sets
\* tags the callers register textures under / look textures up by
RegTags == {"oakd", "oakl"}
LookupTags == RegTags \cup {"nonexistent"}
\* what stbi_load can give back for a file: no image, or an image with 1..4
\* colour channels
NoImage == [ok |-> FALSE, colorChannels |-> 0]
ImageResults == {NoImage} \cup {[ok |-> TRUE, colorChannels |-> c] : c \in 1..4}

VARIABLES
    m_pShaderManager,   \* "NULL" or "shader"
    m_loadedTextures,   \* number of registered texture slots
    m_textureIDs,       \* the array: 0..MaxTextures-1 -> [tag, ID]
    pastEnd,            \* the memory m_textureIDs[MaxTextures] designates
    registered,         \* the [tag, ID] of every registration that succeeded, in order
    m_objectMaterials,  \* std::vector<OBJECT_MATERIAL>
    shader,             \* the uniforms held by the ShaderManager
    written,            \* names of the uniforms set so far
    pushed,             \* names set since RenderScene was entered / since the last draw
    uploads,            \* names of the uniforms set by the latest operation
    glTextures,         \* live GPU texture objects
    glUnits,            \* texture unit -> texture bound to GL_TEXTURE_2D
    glActive,           \* the active texture unit
    glNext,             \* next name glGenTextures returns
    gens,               \* glGenTextures calls made since the initial state
    glDeleted,          \* the names passed to glDeleteTextures, in order
    crashed,            \* the process died on an invalid memory access
    ret,                \* what the latest operation returned
    lastCall,           \* the latest operation and its arguments
    m_basicMeshes,      \* the meshes ShapeMeshes has loaded
    pc,                 \* [phase, i]: where the caller is
    log,                \* operations issued since the latest draw call
    frame               \* RenderScene executions started, up to MaxFrames

texVars == <<m_loadedTextures, m_textureIDs, pastEnd, registered>>
glVars == <<glTextures, glUnits, glActive, glNext, gens, glDeleted>>
shaderVars == <<shader, written, pushed, uploads>>
vars == <<m_pShaderManager, m_loadedTextures, m_textureIDs, pastEnd, registered,
          m_objectMaterials, shader, written, pushed, uploads, glTextures, glUnits,
          glActive, glNext, gens, glDeleted, crashed, ret, lastCall, m_basicMeshes,
          pc, log, frame>>

\* --------------------------------------------------------- texture registry
EmptySlot == [tag |-> "", ID |-> 0]

\* m_textureIDs[i] as the compiled code reads it: past the array it is the
\* memory that follows the array
TexAt(i) == IF i < MaxTextures THEN m_textureIDs[i] ELSE pastEnd

\* `if (image)`
ImageLoadedAlways(image) == TRUE
ImageLoaded(image) == image.ok

\* `if (colorChannels == 3) ... else if (colorChannels == 4) ... else`
ChannelsSupportedAny(colorChannels) == TRUE
ChannelsSupported(colorChannels) == colorChannels = 3 \/ colorChannels = 4

\* glGenTextures(1, &textureID): the new texture object is named glNext
GenTexture ==
    /\ glTextures' = glTextures \cup {glNext}
    /\ glNext' = glNext + 1
    /\ gens' = gens + 1

\* the three statements that register the texture; with the array full the
\* store goes past the end of m_textureIDs (undefined behaviour): the process
\* dies in the std::string assignment, or the store lands in the memory that
\* follows the array and the call goes on
RegisterSlot(textureID, tag) ==
    IF m_loadedTextures < MaxTextures
    THEN /\ m_textureIDs' = [m_textureIDs EXCEPT ![m_loadedTextures] =
                                [tag |-> tag, ID |-> textureID]]
         /\ m_loadedTextures' = m_loadedTextures + 1
         /\ registered' = Append(registered, [tag |-> tag, ID |-> textureID])
         /\ ret' = "true"
         /\ UNCHANGED <<pastEnd, crashed>>
    ELSE \/ /\ crashed' = TRUE
            /\ ret' = "none"
            /\ UNCHANGED texVars
         \/ /\ pastEnd' = [tag |-> tag, ID |-> textureID]
            /\ m_loadedTextures' = m_loadedTextures + 1
            /\ registered' = Append(registered, [tag |-> tag, ID |-> textureID])
            /\ ret' = "true"
            /\ UNCHANGED <<m_textureIDs, crashed>>

CreateGLTexture(image, tag) ==
    IF ImageLoaded(image)
    THEN /\ GenTexture
         /\ IF ChannelsSupported(image.colorChannels)
            THEN \* glTexImage2D, glGenerateMipmap, glBindTexture(.., 0)
                 /\ glUnits' = [glUnits EXCEPT ![glActive] = 0]
                 /\ RegisterSlot(glNext, tag)
            ELSE \* return false: the new texture stays bound
                 /\ glUnits' = [glUnits EXCEPT ![glActive] = glNext]
                 /\ ret' = "false"
                 /\ UNCHANGED <<texVars, crashed>>
         /\ UNCHANGED <<glActive, glDeleted>>
    ELSE /\ ret' = "false"
         /\ UNCHANGED <<texVars, glVars, crashed>>

\* for (i < m_loadedTextures) { glActiveTexture(GL_TEXTURE0 + i);
\*                              glBindTexture(GL_TEXTURE_2D, m_textureIDs[i].ID); }
\* the loop without glActiveTexture: every texture is bound on the active unit
BindGLTexturesOneUnit ==
    /\ glUnits' = IF m_loadedTextures > 0
                  THEN [glUnits EXCEPT ![glActive] = TexAt(m_loadedTextures - 1).ID]
                  ELSE glUnits
    /\ ret' = "void"
    /\ UNCHANGED <<texVars, glTextures, glActive, glNext, gens, glDeleted, crashed>>
BindGLTextures ==
    /\ glUnits' = [u \in DOMAIN glUnits |->
                     IF u < m_loadedTextures THEN TexAt(u).ID ELSE glUnits[u]]
    /\ glActive' = IF m_loadedTextures > 0 THEN m_loadedTextures - 1 ELSE glActive
    /\ ret' = "void"
    /\ UNCHANGED <<texVars, glTextures, glNext, gens, glDeleted, crashed>>

\* for (i < m_loadedTextures) glDeleteTextures(1, &m_textureIDs[i].ID);
\* glDeleteTextures ignores a name that is no texture, and a texture that is
\* deleted while bound is unbound; m_loadedTextures and the slots stay
DestroyGLTextures ==
    LET names == [i \in 1..m_loadedTextures |-> TexAt(i - 1).ID]
        live == {names[i] : i \in DOMAIN names} \cap glTextures
    IN  /\ glDeleted' = glDeleted \o names
        /\ glTextures' = glTextures \ live
        /\ glUnits' = [u \in DOMAIN glUnits |->
                         IF glUnits[u] \in live THEN 0 ELSE glUnits[u]]
        /\ ret' = "void"
        /\ UNCHANGED <<texVars, glActive, glNext, gens, crashed>>

RECURSIVE IDScan(_, _)
IDScan(tag, index) ==
    IF index < m_loadedTextures
    THEN IF TexAt(index).tag = tag THEN TexAt(index).ID ELSE IDScan(tag, index + 1)
    ELSE NotFound

FindTextureIDMissZero(tag) ==
    IF IDScan(tag, 0) = NotFound THEN 0 ELSE IDScan(tag, 0)
FindTextureID(tag) == IDScan(tag, 0)

RECURSIVE SlotScan(_, _)
SlotScan(tag, index) ==
    IF index < m_loadedTextures
    THEN IF TexAt(index).tag = tag THEN index ELSE SlotScan(tag, index + 1)
    ELSE NotFound

\* the scan without `bFound == false` in the loop condition: the last match
FindTextureSlotLast(tag) ==
    LET hits == {i \in 0..(m_loadedTextures - 1) : TexAt(i).tag = tag} IN
    IF hits = {} THEN NotFound ELSE CHOOSE i \in hits : \A j \in hits : j <= i
FindTextureSlotMissZero(tag) ==
    IF SlotScan(tag, 0) = NotFound THEN 0 ELSE SlotScan(tag, 0)
FindTextureSlot(tag) == SlotScan(tag, 0)

\* ----------------------------------------------------------- material table
Vec3(x, y, z) == <<x, y, z>>

Material(tag, ambientColor, ambientStrength, diffuseColor, specularColor, shininess) ==
    [tag |-> tag, ambientColor |-> ambientColor, ambientStrength |-> ambientStrength,
     diffuseColor |-> diffuseColor, specularColor |-> specularColor,
     shininess |-> shininess]

\* the nine entries DefineObjectMaterials pushes, in order
SceneMaterials == <<
    Material("plane", Vec3(300, 300, 250), 300, Vec3(800, 800, 800), Vec3(200, 200, 200), 16000),
    Material("cylinder", Vec3(250, 250, 250), 250, Vec3(700, 700, 700), Vec3(300, 300, 300), 32000),
    Material("box", Vec3(200, 150, 100), 400, Vec3(600, 400, 200), Vec3(400, 400, 400), 64000),
    Material("sphere", Vec3(300, 250, 100), 200, Vec3(800, 700, 300), Vec3(900, 900, 700), 128000),
    Material("lampBase", Vec3(100, 100, 100), 300, Vec3(300, 300, 300), Vec3(500, 500, 500), 64000),
    Material("lampShade", Vec3(900, 900, 800), 400, Vec3(950, 950, 900), Vec3(200, 200, 200), 16000),
    Material("bed", Vec3(100, 100, 300), 300, Vec3(200, 300, 800), Vec3(100, 100, 300), 32000),
    Material("pillow", Vec3(900, 900, 900), 400, Vec3(1000, 1000, 1000), Vec3(300, 300, 300), 16000),
    Material("rug", Vec3(300, 100, 100), 400, Vec3(700, 200, 200), Vec3(100, 100, 100), 8000) >>

MaterialTags == {SceneMaterials[i].tag : i \in DOMAIN SceneMaterials}
MaterialLookupTags == MaterialTags \cup {"nonexistent"}

DefineObjectMaterials ==
    /\ m_objectMaterials' = m_objectMaterials \o SceneMaterials
    /\ ret' = "void"

\* the five fields the shader has a uniform for
MaterialFields(m) ==
    [ambientColor |-> m.ambientColor, ambientStrength |-> m.ambientStrength,
     diffuseColor |-> m.diffuseColor, specularColor |-> m.specularColor,
     shininess |-> m.shininess]

ZeroMaterial == Material("", Vec3(0, 0, 0), 0, Vec3(0, 0, 0), Vec3(0, 0, 0), 0)
JunkMaterial == Material("", Vec3(-7, 13, 999), -1, Vec3(5, 5, 5), Vec3(1, 2, 3), 77)

\* `OBJECT_MATERIAL material;` is a local that is not initialised: its vectors
\* and floats hold whatever the stack holds (zeroes, the values the previous
\* call left there, anything else); its std::string member is empty
IndeterminateMaterials ==
    {ZeroMaterial, JunkMaterial,
     Material("", shader.material.ambientColor, shader.material.ambientStrength,
              shader.material.diffuseColor, shader.material.specularColor,
              shader.material.shininess)}

\* index (1-based) of the first entry with the tag, 0 when the scan ends
RECURSIVE MaterialScan(_, _)
MaterialScan(tag, index) ==
    IF index <= Len(m_objectMaterials)
    THEN IF m_objectMaterials[index].tag = tag THEN index
         ELSE MaterialScan(tag, index + 1)
    ELSE 0

\* bool FindMaterial(tag, OBJECT_MATERIAL& material): the value returned and
\* the caller's object after the call
FindMaterial(tag, material) ==
    IF Len(m_objectMaterials) = 0
    THEN [ret |-> FALSE, material |-> material]
    ELSE LET index == MaterialScan(tag, 1) IN
         [ret |-> TRUE,
          material |->
            IF index # 0
            THEN [material EXCEPT
                    !.diffuseColor = m_objectMaterials[index].diffuseColor,
                    !.specularColor = m_objectMaterials[index].specularColor,
                    !.shininess = m_objectMaterials[index].shininess,
                    !.ambientColor = m_objectMaterials[index].ambientColor,
                    !.ambientStrength = m_objectMaterials[index].ambientStrength]
            ELSE material]

\* ------------------------------------------------------- binding operations
MaterialUniforms ==
    <<"material.ambientColor", "material.ambientStrength", "material.diffuseColor",
      "material.specularColor", "material.shininess">>

Range(s) == {s[i] : i \in DOMAIN s}

\* no uniform set yet in this frame
NothingPushed == [frame |-> {}, draw |-> {}]

Upload(names) ==
    /\ uploads' = names
    /\ written' = written \cup Range(names)
    /\ pushed' = [frame |-> pushed.frame \cup Range(names),
                  draw |-> pushed.draw \cup Range(names)]

NoUpload ==
    /\ uploads' = <<>>
    /\ UNCHANGED <<shader, written, pushed>>

\* a call through m_pShaderManager that no NULL test guards
Deref(A) ==
    IF m_pShaderManager # "NULL"
    THEN A /\ UNCHANGED crashed
    ELSE NoUpload /\ crashed' = TRUE

SetShaderTexture(textureTag) ==
    /\ IF m_pShaderManager # "NULL"
       THEN /\ shader' = [shader EXCEPT !.bUseTexture = TRUE,
                                        !.objectTexture = FindTextureSlot(textureTag)]
            /\ Upload(<<"bUseTexture", "objectTexture">>)
       ELSE NoUpload
    /\ ret' = "void"
    /\ UNCHANGED crashed

SetShaderMaterial(materialTag) ==
    /\ IF Len(m_objectMaterials) > 0
       THEN \E material \in IndeterminateMaterials :
               LET found == FindMaterial(materialTag, material) IN
               IF found.ret = TRUE
               THEN Deref(/\ shader' = [shader EXCEPT
                                          !.material = MaterialFields(found.material)]
                          /\ Upload(MaterialUniforms))
               ELSE NoUpload /\ UNCHANGED crashed
       ELSE NoUpload /\ UNCHANGED crashed
    /\ ret' = "void"

\* SetShaderColor without the bUseTexture upload
SetShaderColorKeepFlag(redColorValue, greenColorValue, blueColorValue, alphaValue) ==
    /\ IF m_pShaderManager # "NULL"
       THEN /\ shader' = [shader EXCEPT
                            !.objectColor = <<redColorValue, greenColorValue,
                                              blueColorValue, alphaValue>>]
            /\ Upload(<<"objectColor">>)
       ELSE NoUpload
    /\ ret' = "void"
    /\ UNCHANGED crashed

SetShaderColor(redColorValue, greenColorValue, blueColorValue, alphaValue) ==
    /\ IF m_pShaderManager # "NULL"
       THEN /\ shader' = [shader EXCEPT
                            !.bUseTexture = FALSE,
                            !.objectColor = <<redColorValue, greenColorValue,
                                              blueColorValue, alphaValue>>]
            /\ Upload(<<"bUseTexture", "objectColor">>)
       ELSE NoUpload
    /\ ret' = "void"
    /\ UNCHANGED crashed

\* SetTextureUVScale that also switches texturing on
SetTextureUVScaleUseTexture(u, v) ==
    /\ IF m_pShaderManager # "NULL"
       THEN /\ shader' = [shader EXCEPT !.UVscale = <<u, v>>, !.bUseTexture = TRUE]
            /\ Upload(<<"UVscale", "bUseTexture">>)
       ELSE NoUpload
    /\ ret' = "void"
    /\ UNCHANGED crashed

SetTextureUVScale(u, v) ==
    /\ IF m_pShaderManager # "NULL"
       THEN /\ shader' = [shader EXCEPT !.UVscale = <<u, v>>]
            /\ Upload(<<"UVscale">>)
       ELSE NoUpload
    /\ ret' = "void"
    /\ UNCHANGED crashed

\* ------------------------------------------------------------ 4x4 matrices
\* a matrix is <<row 1, .., row 4>>, its entries in thousandths
One == 10 * 100

Mat4Mul(A, B) ==
    [i \in 1..4 |-> [j \in 1..4 |->
        (A[i][1] * B[1][j] + A[i][2] * B[2][j] + A[i][3] * B[3][j] + A[i][4] * B[4][j])
            \div One]]

\* glm::scale(v)
GlmScale(v) ==
    << <<v[1], 0, 0, 0>>, <<0, v[2], 0, 0>>, <<0, 0, v[3], 0>>, <<0, 0, 0, One>> >>

\* glm::translate(v)
GlmTranslate(v) ==
    << <<One, 0, 0, v[1]>>, <<0, One, 0, v[2]>>, <<0, 0, One, v[3]>>, <<0, 0, 0, One>> >>

\* cos and sin of glm::radians(degrees), for the multiples of 90 degrees
CosDeg(degrees) ==
    LET r == degrees % 360 IN
    CASE r = 0 -> One [] r = 90 -> 0 [] r = 180 -> -One [] r = 270 -> 0

SinDeg(degrees) ==
    LET r == degrees % 360 IN
    CASE r = 0 -> 0 [] r = 90 -> One [] r = 180 -> 0 [] r = 270 -> -One

\* glm::rotate(glm::radians(degrees), axis) for the three unit axes
GlmRotateX(degrees) ==
    LET c == CosDeg(degrees) s == SinDeg(degrees) IN
    << <<One, 0, 0, 0>>, <<0, c, -s, 0>>, <<0, s, c, 0>>, <<0, 0, 0, One>> >>

GlmRotateY(degrees) ==
    LET c == CosDeg(degrees) s == SinDeg(degrees) IN
    << <<c, 0, s, 0>>, <<0, One, 0, 0>>, <<-s, 0, c, 0>>, <<0, 0, 0, One>> >>

GlmRotateZ(degrees) ==
    LET c == CosDeg(degrees) s == SinDeg(degrees) IN
    << <<c, -s, 0, 0>>, <<s, c, 0, 0>>, <<0, 0, One, 0>>, <<0, 0, 0, One>> >>

\* the product taken with the three rotations in the opposite order
ModelViewXYZ(scaleXYZ, XrotationDegrees, YrotationDegrees, ZrotationDegrees, positionXYZ) ==
    Mat4Mul(Mat4Mul(Mat4Mul(Mat4Mul(GlmTranslate(positionXYZ),
                                    GlmRotateX(XrotationDegrees)),
                            GlmRotateY(YrotationDegrees)),
                    GlmRotateZ(ZrotationDegrees)),
            GlmScale(scaleXYZ))

\* modelView = translation * rotationZ * rotationY * rotationX * scale
ModelView(scaleXYZ, XrotationDegrees, YrotationDegrees, ZrotationDegrees, positionXYZ) ==
    Mat4Mul(Mat4Mul(Mat4Mul(Mat4Mul(GlmTranslate(positionXYZ),
                                    GlmRotateZ(ZrotationDegrees)),
                            GlmRotateY(YrotationDegrees)),
                    GlmRotateX(XrotationDegrees)),
            GlmScale(scaleXYZ))

SetTransformations(scaleXYZ, XrotationDegrees, YrotationDegrees, ZrotationDegrees, positionXYZ) ==
    /\ IF m_pShaderManager # "NULL"
       THEN /\ shader' = [shader EXCEPT !.model =
                            ModelView(scaleXYZ, XrotationDegrees, YrotationDegrees,
                                      ZrotationDegrees, positionXYZ)]
            /\ Upload(<<"model">>)
       ELSE NoUpload
    /\ ret' = "void"
    /\ UNCHANGED crashed

\* ------------------------------------------------------------ initial state
ZeroMat4 == [i \in 1..4 |-> [j \in 1..4 |-> 0]]

\* the uniforms before anything is set
InitShader ==
    [model |-> ZeroMat4, objectColor |-> <<0, 0, 0, 0>>, bUseTexture |-> FALSE,
     objectTexture |-> 0, UVscale |-> <<0, 0>>,
     material |-> MaterialFields(ZeroMaterial),
     bUseLighting |-> FALSE, viewPosition |-> <<0, 0, 0>>,
     pointLights |-> [i \in 0..4 |->
                        [position |-> <<0, 0, 0>>, ambient |-> <<0, 0, 0>>,
                         diffuse |-> <<0, 0, 0>>, specular |-> <<0, 0, 0>>,
                         bActive |-> FALSE]],
     spotLightActive |-> FALSE]

NoCall == [op |-> "none", tag |-> "", image |-> NoImage, args |-> <<>>]
Called(op, tag, image) == [op |-> op, tag |-> tag, image |-> image, args |-> <<>>]
CalledWith(op, args) == [op |-> op, tag |-> "", image |-> NoImage, args |-> args]

Pc(phase, i) == [phase |-> phase, i |-> i]

\* SceneManager(pShaderManager) with a shader manager, on a fresh GL context
Constructed ==
    /\ m_pShaderManager = "shader"
    /\ m_loadedTextures = 0
    /\ m_textureIDs = [i \in 0..(MaxTextures - 1) |-> EmptySlot]
    /\ pastEnd = EmptySlot
    /\ registered = <<>>
    /\ m_objectMaterials = <<>>
    /\ shader = InitShader
    /\ written = {}
    /\ pushed = NothingPushed
    /\ uploads = <<>>
    /\ glTextures = {}
    /\ glUnits = [u \in 0..(MaxTextures - 1) |-> 0]
    /\ glActive = 0
    /\ glNext = 1
    /\ gens = 0
    /\ glDeleted = <<>>
    /\ crashed = FALSE
    /\ ret = "void"
    /\ lastCall = NoCall
    /\ m_basicMeshes = {}
    /\ log = <<>>
    /\ frame = 0

\* --------------------------------------------- the operations, called freely
Alive == crashed = FALSE /\ m_loadedTextures <= MaxTextures

\* an operation of the texture registry leaves the rest alone
TexOp(A) ==
    /\ A
    /\ UNCHANGED <<m_pShaderManager, m_objectMaterials, shaderVars, m_basicMeshes>>

\* a binding operation leaves the registries and the GL textures alone
ShaderOp(A) ==
    /\ A
    /\ UNCHANGED <<m_pShaderManager, m_objectMaterials, texVars, glVars, m_basicMeshes>>

ApiCreateGLTexture ==
    /\ pc.phase = "api" /\ Alive
    /\ gens < MaxGen
    /\ \E image \in ImageResults, tag \in RegTags :
          /\ TexOp(CreateGLTexture(image, tag))
          /\ lastCall' = Called("CreateGLTexture", tag, image)
    /\ UNCHANGED <<pc, log, frame>>

ApiBindGLTextures ==
    /\ pc.phase = "api" /\ Alive
    /\ TexOp(BindGLTextures)
    /\ lastCall' = Called("BindGLTextures", "", NoImage)
    /\ UNCHANGED <<pc, log, frame>>

ApiSetShaderTexture ==
    /\ pc.phase = "api" /\ Alive
    /\ \E tag \in LookupTags :
          /\ ShaderOp(SetShaderTexture(tag))
          /\ lastCall' = Called("SetShaderTexture", tag, NoImage)
    /\ UNCHANGED <<pc, log, frame>>

\* colours the callers push
Colors == {<<900, 850, 750, 1000>>, <<200, 200, 200, 1000>>}

ApiSetShaderColor ==
    /\ pc.phase = "api" /\ Alive
    /\ \E c \in Colors :
          /\ ShaderOp(SetShaderColor(c[1], c[2], c[3], c[4]))
          /\ lastCall' = CalledWith("SetShaderColor", c)
    /\ UNCHANGED <<pc, log, frame>>

ApiDefineObjectMaterials ==
    /\ pc.phase = "api" /\ Alive
    /\ Len(m_objectMaterials) < MaxDefine * Len(SceneMaterials)
    /\ DefineObjectMaterials
    /\ lastCall' = Called("DefineObjectMaterials", "", NoImage)
    /\ UNCHANGED <<m_pShaderManager, texVars, glVars, shaderVars, crashed,
                   m_basicMeshes, pc, log, frame>>

ApiSetShaderMaterial ==
    /\ pc.phase = "api" /\ Alive
    /\ \E tag \in MaterialLookupTags :
          /\ ShaderOp(SetShaderMaterial(tag))
          /\ lastCall' = Called("SetShaderMaterial", tag, NoImage)
    /\ UNCHANGED <<pc, log, frame>>

\* the state after construction, the caller free to call any operation
InitTex == Constructed /\ pc = Pc("api", 0)

NextTex ==
    \/ ApiCreateGLTexture
    \/ ApiBindGLTextures
    \/ ApiSetShaderTexture

\* the texture registry, from a state PreLoaded successful registrations away
\* from construction: two slots short of a full array
PreLoaded == MaxTextures - 2

InitCap ==
    /\ pc = Pc("api", 0)
    /\ m_pShaderManager = "shader"
    /\ m_loadedTextures = PreLoaded
    /\ \E first \in RegTags, rest \in RegTags :
          m_textureIDs = [i \in 0..(MaxTextures - 1) |->
                            IF i < PreLoaded
                            THEN [tag |-> IF i = 0 THEN first ELSE rest, ID |-> i + 1]
                            ELSE EmptySlot]
    /\ pastEnd = EmptySlot
    /\ registered = [i \in 1..PreLoaded |-> m_textureIDs[i - 1]]
    /\ m_objectMaterials = <<>>
    /\ shader = InitShader
    /\ written = {}
    /\ pushed = NothingPushed
    /\ uploads = <<>>
    /\ glTextures = 1..PreLoaded
    /\ glUnits = [u \in 0..(MaxTextures - 1) |-> 0]
    /\ glActive = 0
    /\ glNext = PreLoaded + 1
    /\ gens = 0
    /\ glDeleted = <<>>
    /\ crashed = FALSE
    /\ ret = "void"
    /\ lastCall = NoCall
    /\ m_basicMeshes = {}
    /\ log = <<>>
    /\ frame = 0

\* the texture registry, called freely from either state
InitTexAny == InitTex \/ InitCap

SpecTex == InitTexAny /\ [][NextTex]_vars

\* the material table and pushMaterial, from construction
\* ------------------------------------------------- the transform alone
\* the inputs the caller passes: whole-number scales and translations (in
\* thousandths) and quarter turns
XformScales == {<<One, One, One>>, <<2 * One, 3 * One, 4 * One>>}
XformDegrees == {0, 90, 180, 270}
XformPositions == {<<0, 0, 0>>, <<5 * One, -6 * One, 7 * One>>}

XformOp(scales, degrees, positions) ==
    /\ pc.phase = "api" /\ Alive
    /\ \E scaleXYZ \in scales, positionXYZ \in positions :
       \E rx \in degrees, ry \in degrees, rz \in degrees :
          /\ ShaderOp(SetTransformations(scaleXYZ, rx, ry, rz, positionXYZ))
          /\ lastCall' = CalledWith("SetTransformations",
                                    <<scaleXYZ, rx, ry, rz, positionXYZ>>)
    /\ UNCHANGED <<pc, log, frame>>

ApiSetTransformations == XformOp(XformScales, XformDegrees, XformPositions)

NextXform == ApiSetTransformations

SpecXform == InitTex /\ [][NextXform]_vars

\* ------------------------------------------- the five binding operations
\* the state after DefineObjectMaterials() and two successful
\* CreateGLTexture calls, "oakd" then "oakl"
InitBind ==
    /\ pc = Pc("api", 0)
    /\ m_pShaderManager = "shader"
    /\ m_loadedTextures = 2
    /\ m_textureIDs = [i \in 0..(MaxTextures - 1) |->
                         CASE i = 0 -> [tag |-> "oakd", ID |-> 1]
                           [] i = 1 -> [tag |-> "oakl", ID |-> 2]
                           [] OTHER -> EmptySlot]
    /\ pastEnd = EmptySlot
    /\ registered = <<[tag |-> "oakd", ID |-> 1], [tag |-> "oakl", ID |-> 2]>>
    /\ m_objectMaterials = SceneMaterials
    /\ shader = InitShader
    /\ written = {}
    /\ pushed = NothingPushed
    /\ uploads = <<>>
    /\ glTextures = {1, 2}
    /\ glUnits = [u \in 0..(MaxTextures - 1) |-> 0]
    /\ glActive = 0
    /\ glNext = 3
    /\ gens = 2
    /\ glDeleted = <<>>
    /\ crashed = FALSE
    /\ ret = "true"
    /\ lastCall = Called("CreateGLTexture", "oakl", [ok |-> TRUE, colorChannels |-> 3])
    /\ m_basicMeshes = {}
    /\ log = <<>>
    /\ frame = 0

\* the UV scales the caller passes
UVScales == {<<One, One>>, <<2 * One, 3 * One>>}

ApiSetTextureUVScale ==
    /\ pc.phase = "api" /\ Alive
    /\ \E uv \in UVScales :
          /\ ShaderOp(SetTextureUVScale(uv[1], uv[2]))
          /\ lastCall' = CalledWith("SetTextureUVScale", uv)
    /\ UNCHANGED <<pc, log, frame>>

\* SetTransformations with unrotated inputs
BindSetTransformations == XformOp(XformScales, {0}, XformPositions)

NextBind ==
    \/ BindSetTransformations
    \/ ApiSetShaderColor
    \/ ApiSetShaderTexture
    \/ ApiSetTextureUVScale
    \/ ApiSetShaderMaterial

SpecBind == InitBind /\ [][NextBind]_vars

\* ------------------------------------------ the lifetime of the registry
\* how often the caller releases the textures in one lifetime
MaxDestroy == 2

ApiDestroyGLTextures ==
    /\ pc.phase = "api" /\ Alive
    /\ Len(glDeleted) + m_loadedTextures <= MaxDestroy * MaxGen
    /\ TexOp(DestroyGLTextures)
    /\ lastCall' = Called("DestroyGLTextures", "", NoImage)
    /\ UNCHANGED <<pc, log, frame>>

\* ~SceneManager(): forgets the shader manager and deletes the meshes; it
\* makes no GL call and does not call DestroyGLTextures
Destructor ==
    /\ pc.phase = "api" /\ Alive
    /\ m_pShaderManager' = "NULL"
    /\ m_basicMeshes' = {}
    /\ pc' = Pc("destroyed", 0)
    /\ ret' = "void"
    /\ lastCall' = Called("~SceneManager", "", NoImage)
    /\ UNCHANGED <<texVars, glVars, m_objectMaterials, shaderVars, crashed, log, frame>>

NextLife ==
    \/ ApiCreateGLTexture
    \/ ApiBindGLTextures
    \/ ApiDestroyGLTextures
    \/ Destructor

SpecLife == InitTex /\ [][NextLife]_vars

NextMat ==
    \/ ApiDefineObjectMaterials
    \/ ApiSetShaderMaterial
    \/ ApiSetShaderColor

SpecMat == InitTex /\ [][NextMat]_vars

\* -------------------------------------------------------------- lighting
\* the uniform names of point light i: "pointLights[" + i + "]." + field
PointLightName(i, field) ==
    CASE field = "position" ->
            <<"pointLights[0].position", "pointLights[1].position",
              "pointLights[2].position", "pointLights[3].position",
              "pointLights[4].position">>[i + 1]
      [] field = "ambient" ->
            <<"pointLights[0].ambient", "pointLights[1].ambient",
              "pointLights[2].ambient", "pointLights[3].ambient",
              "pointLights[4].ambient">>[i + 1]
      [] field = "diffuse" ->
            <<"pointLights[0].diffuse", "pointLights[1].diffuse",
              "pointLights[2].diffuse", "pointLights[3].diffuse",
              "pointLights[4].diffuse">>[i + 1]
      [] field = "specular" ->
            <<"pointLights[0].specular", "pointLights[1].specular",
              "pointLights[2].specular", "pointLights[3].specular",
              "pointLights[4].specular">>[i + 1]
      [] field = "bActive" ->
            <<"pointLights[0].bActive", "pointLights[1].bActive",
              "pointLights[2].bActive", "pointLights[3].bActive",
              "pointLights[4].bActive">>[i + 1]

\* the setter calls with the disabling loop started one light too late
LightCallsFromThree == <<
    <<-1, "bUseLighting", TRUE>>,
    <<-1, "viewPosition", <<4000, 1000, 4000>> >>,
    <<0, "ambient", <<100, 100, 300>> >>,
    <<0, "diffuse", <<200, 200, 800>> >>,
    <<0, "specular", <<300, 300, 1000>> >>,
    <<0, "specular", <<300, 300, 300>> >>,
    <<0, "bActive", TRUE>>,
    <<1, "position", <<-77000, 10000, -27000>> >>,
    <<1, "ambient", <<100, 100, 80>> >>,
    <<1, "diffuse", <<500, 500, 400>> >>,
    <<1, "specular", <<300, 300, 300>> >>,
    <<1, "bActive", TRUE>>,
    <<3, "bActive", FALSE>>,
    <<4, "bActive", FALSE>>,
    <<-1, "spotLight.bActive", FALSE>> >>

\* the setter calls of SetupSceneLights, in order: <<light, field, value>>,
\* light -1 for the uniforms that belong to no point light
LightCalls == <<
    <<-1, "bUseLighting", TRUE>>,
    <<-1, "viewPosition", <<4000, 1000, 4000>> >>,
    <<0, "ambient", <<100, 100, 300>> >>,
    <<0, "diffuse", <<200, 200, 800>> >>,
    <<0, "specular", <<300, 300, 1000>> >>,
    <<0, "specular", <<300, 300, 300>> >>,
    <<0, "bActive", TRUE>>,
    <<1, "position", <<-77000, 10000, -27000>> >>,
    <<1, "ambient", <<100, 100, 80>> >>,
    <<1, "diffuse", <<500, 500, 400>> >>,
    <<1, "specular", <<300, 300, 300>> >>,
    <<1, "bActive", TRUE>>,
    <<2, "bActive", FALSE>>,
    <<3, "bActive", FALSE>>,
    <<4, "bActive", FALSE>>,
    <<-1, "spotLight.bActive", FALSE>> >>

LightCallName(c) == IF c[1] = -1 THEN c[2] ELSE PointLightName(c[1], c[2])

\* the uniforms after one setter call
ApplyLightCall(sh, c) ==
    IF c[1] # -1
    THEN [sh EXCEPT !.pointLights[c[1]] =
            CASE c[2] = "position" -> [@ EXCEPT !.position = c[3]]
              [] c[2] = "ambient" -> [@ EXCEPT !.ambient = c[3]]
              [] c[2] = "diffuse" -> [@ EXCEPT !.diffuse = c[3]]
              [] c[2] = "specular" -> [@ EXCEPT !.specular = c[3]]
              [] c[2] = "bActive" -> [@ EXCEPT !.bActive = c[3]]]
    ELSE CASE c[2] = "bUseLighting" -> [sh EXCEPT !.bUseLighting = c[3]]
           [] c[2] = "viewPosition" -> [sh EXCEPT !.viewPosition = c[3]]
           [] c[2] = "spotLight.bActive" -> [sh EXCEPT !.spotLightActive = c[3]]

RECURSIVE ApplyLightCalls(_, _, _)
ApplyLightCalls(sh, calls, k) ==
    IF k > Len(calls) THEN sh
    ELSE ApplyLightCalls(ApplyLightCall(sh, calls[k]), calls, k + 1)

SetupSceneLights ==
    /\ Deref(/\ shader' = ApplyLightCalls(shader, LightCalls, 1)
             /\ Upload([k \in DOMAIN LightCalls |-> LightCallName(LightCalls[k])]))
    /\ ret' = "void"

\* ------------------------------------------------ PrepareScene, RenderScene
\* one call of a script; the fields a call does not use are zero
ScriptCall(op, tag, scaleXYZ, positionXYZ, color) ==
    [op |-> op, tag |-> tag, scaleXYZ |-> scaleXYZ, positionXYZ |-> positionXYZ,
     color |-> color]

DoSetupSceneLights == ScriptCall("SetupSceneLights", "", <<0, 0, 0>>, <<0, 0, 0>>, <<0, 0, 0, 0>>)
DoDefineObjectMaterials ==
    ScriptCall("DefineObjectMaterials", "", <<0, 0, 0>>, <<0, 0, 0>>, <<0, 0, 0, 0>>)
DoLoadMesh(mesh) == ScriptCall("LoadMesh", mesh, <<0, 0, 0>>, <<0, 0, 0>>, <<0, 0, 0, 0>>)
DoCreateGLTexture(tag) ==
    ScriptCall("CreateGLTexture", tag, <<0, 0, 0>>, <<0, 0, 0>>, <<0, 0, 0, 0>>)
DoSetTransformations(scaleXYZ, positionXYZ) ==
    ScriptCall("SetTransformations", "", scaleXYZ, positionXYZ, <<0, 0, 0, 0>>)
DoSetShaderColor(r, g, b, a) ==
    ScriptCall("SetShaderColor", "", <<0, 0, 0>>, <<0, 0, 0>>, <<r, g, b, a>>)
DoSetShaderTexture(tag) ==
    ScriptCall("SetShaderTexture", tag, <<0, 0, 0>>, <<0, 0, 0>>, <<0, 0, 0, 0>>)
DoSetShaderMaterial(tag) ==
    ScriptCall("SetShaderMaterial", tag, <<0, 0, 0>>, <<0, 0, 0>>, <<0, 0, 0, 0>>)
DoDraw(mesh) == ScriptCall("Draw", mesh, <<0, 0, 0>>, <<0, 0, 0>>, <<0, 0, 0, 0>>)

\* the calls PrepareScene makes, in order
\* PrepareScene registering the carpet image under another tag
PrepareScriptOtherTag == <<
    DoSetupSceneLights,
    DoDefineObjectMaterials,
    DoLoadMesh("plane"), DoLoadMesh("box"), DoLoadMesh("sphere"),
    DoLoadMesh("cylinder"), DoLoadMesh("cone"),
    DoCreateGLTexture("oakd"), DoCreateGLTexture("oakl"), DoCreateGLTexture("brass"),
    DoCreateGLTexture("rug"), DoCreateGLTexture("sheet") >>

PrepareScript == <<
    DoSetupSceneLights,
    DoDefineObjectMaterials,
    DoLoadMesh("plane"), DoLoadMesh("box"), DoLoadMesh("sphere"),
    DoLoadMesh("cylinder"), DoLoadMesh("cone"),
    DoCreateGLTexture("oakd"), DoCreateGLTexture("oakl"), DoCreateGLTexture("brass"),
    DoCreateGLTexture("carpet"), DoCreateGLTexture("sheet") >>

\* the locals of RenderScene that lay out the handles and the drawers
numRows == 3
numCols == 2
startX == -1200
startY == 2500
spacingX == 2400
spacingY == -1000

\* for (row < numRows) for (col < numCols) { SetTransformations(..); Draw..Mesh(); }
GridLoopTransformOnce(scaleXYZ, z, mesh) ==
    <<DoSetTransformations(scaleXYZ, <<startX, startY, z>>)>> \o
    [k \in 1..(numRows * numCols) |-> DoDraw(mesh)]
GridLoop(scaleXYZ, z, mesh) ==
    [k \in 1..(2 * numRows * numCols) |->
        LET cell == (k - 1) \div 2
            row == cell \div numCols
            col == cell % numCols
        IN  IF k % 2 = 1
            THEN DoSetTransformations(
                    scaleXYZ, <<startX + col * spacingX, startY + row * spacingY, z>>)
            ELSE DoDraw(mesh)]

\* the calls RenderScene makes, in order
RenderScript ==
    \* floor plane
    << DoSetTransformations(<<20000, 1000, 10000>>, <<0, 0, 0>>),
       DoSetShaderColor(900, 850, 750, 1000),
       DoSetShaderMaterial("plane"),
       DoDraw("plane"),
    \* dresser
       DoSetTransformations(<<4000, 3000, 1500>>, <<0, 1500, -4000>>),
       DoSetShaderTexture("oakd"),
       DoSetShaderMaterial("box"),
       DoDraw("box"),
    \* handles
       DoSetShaderTexture("brass"),
       DoSetShaderMaterial("sphere") >>
    \o GridLoop(<<100, 100, 100>>, -3200, "sphere")
    \* drawers
    \o << DoSetShaderTexture("oakl"),
          DoSetShaderMaterial("box") >>
    \o GridLoop(<<1400, 500, 250>>, -3250, "box")
    \* lamp base, stem, shade
    \o << DoSetTransformations(<<400, 200, 400>>, <<-1000, 3100, -4000>>),
          DoSetShaderColor(200, 200, 200, 1000),
          DoSetShaderMaterial("lampBase"),
          DoDraw("box"),
          DoSetTransformations(<<50, 1000, 50>>, <<-1000, 3200, -4000>>),
          DoSetShaderColor(200, 200, 200, 1000),
          DoSetShaderMaterial("lampBase"),
          DoDraw("cylinder"),
          DoSetTransformations(<<600, 500, 600>>, <<-1000, 3900, -4000>>),
          DoSetShaderColor(950, 950, 900, 1000),
          DoSetShaderMaterial("lampShade"),
          DoDraw("cone"),
    \* bed
          DoSetTransformations(<<4000, 1800, 7000>>, <<6000, 400, -2000>>),
          DoSetShaderTexture("sheet"),
          DoSetShaderMaterial("bed"),
          DoDraw("box"),
    \* pillows
          DoSetShaderColor(1000, 1000, 1000, 1000),
          DoSetShaderMaterial("pillow"),
          DoSetTransformations(<<1300, 200, 800>>, <<5200, 1300, -4500>>),
          DoDraw("box"),
          DoSetTransformations(<<1300, 200, 800>>, <<6800, 1300, -4500>>),
          DoDraw("box"),
    \* rug
          DoSetTransformations(<<6000, 50, 6000>>, <<2000, 25, -1000>>),
          DoSetShaderTexture("carpet"),
          DoSetShaderMaterial("rug"),
          DoDraw("cylinder") >>

\* the call the caller is at
Running == crashed = FALSE
AtPrepare(op) ==
    Running /\ pc.phase = "prepare" /\ PrepareScript[pc.i].op = op
AtRender(op) ==
    Running /\ pc.phase = "render" /\ RenderScript[pc.i].op = op

\* RenderScene leaving at the first colour selection it meets
RenderAdvanceEarlyOut ==
    pc' = IF pc.i < Len(RenderScript) /\ RenderScript[pc.i].op # "SetShaderColor"
          THEN Pc("render", pc.i + 1) ELSE Pc("idle", 0)

\* PrepareScene returns to the caller after its last call; so does RenderScene
PrepareAdvance ==
    pc' = IF pc.i < Len(PrepareScript) THEN Pc("prepare", pc.i + 1) ELSE Pc("idle", 0)
RenderAdvance ==
    pc' = IF pc.i < Len(RenderScript) THEN Pc("render", pc.i + 1) ELSE Pc("idle", 0)

PrepareSetupSceneLights ==
    /\ AtPrepare("SetupSceneLights")
    /\ ShaderOp(SetupSceneLights)
    /\ lastCall' = Called("SetupSceneLights", "", NoImage)
    /\ PrepareAdvance
    /\ UNCHANGED <<log, frame>>

PrepareDefineObjectMaterials ==
    /\ AtPrepare("DefineObjectMaterials")
    /\ DefineObjectMaterials
    /\ lastCall' = Called("DefineObjectMaterials", "", NoImage)
    /\ PrepareAdvance
    /\ UNCHANGED <<m_pShaderManager, texVars, glVars, shaderVars, crashed,
                   m_basicMeshes, log, frame>>

\* m_basicMeshes->Load..Mesh()
PrepareLoadMesh ==
    /\ AtPrepare("LoadMesh")
    /\ m_basicMeshes' = m_basicMeshes \cup {PrepareScript[pc.i].tag}
    /\ ret' = "void"
    /\ lastCall' = Called("LoadMesh", PrepareScript[pc.i].tag, NoImage)
    /\ PrepareAdvance
    /\ UNCHANGED <<m_pShaderManager, m_objectMaterials, texVars, glVars, shaderVars,
                   crashed, log, frame>>

\* CreateGLTexture("textures/<tag>.jpg", tag): what the file decodes to is the
\* environment's choice
PrepareCreateGLTexture ==
    /\ AtPrepare("CreateGLTexture")
    /\ \E image \in ImageResults :
          /\ TexOp(CreateGLTexture(image, PrepareScript[pc.i].tag))
          /\ lastCall' = Called("CreateGLTexture", PrepareScript[pc.i].tag, image)
    /\ PrepareAdvance
    /\ UNCHANGED <<log, frame>>

\* the caller's render loop calls RenderScene once per frame
EnterRenderScene ==
    /\ Running /\ pc.phase = "idle"
    /\ pc' = Pc("render", 1)
    /\ frame' = IF frame < MaxFrames THEN frame + 1 ELSE frame
    /\ pushed' = NothingPushed
    /\ UNCHANGED <<m_pShaderManager, m_objectMaterials, texVars, glVars, shader,
                   written, uploads, crashed, ret, lastCall, m_basicMeshes, log>>

RenderSetTransformations ==
    /\ AtRender("SetTransformations")
    /\ LET c == RenderScript[pc.i] IN
       ShaderOp(SetTransformations(c.scaleXYZ, 0, 0, 0, c.positionXYZ))
    /\ lastCall' = Called("SetTransformations", "", NoImage)
    /\ log' = Append(log, "SetTransformations")
    /\ RenderAdvance
    /\ UNCHANGED frame

\* a colour selection that is passed over: nothing is uploaded
RenderSetShaderColorSkipped ==
    /\ AtRender("SetShaderColor")
    /\ ShaderOp(NoUpload /\ ret' = "void" /\ UNCHANGED crashed)
    /\ lastCall' = Called("SetShaderColor", "", NoImage)
    /\ log' = Append(log, "SetShaderColor")
    /\ RenderAdvance
    /\ UNCHANGED frame

RenderSetShaderColor ==
    /\ AtRender("SetShaderColor")
    /\ LET c == RenderScript[pc.i].color IN
       ShaderOp(SetShaderColor(c[1], c[2], c[3], c[4]))
    /\ lastCall' = Called("SetShaderColor", "", NoImage)
    /\ log' = Append(log, "SetShaderColor")
    /\ RenderAdvance
    /\ UNCHANGED frame

RenderSetShaderTexture ==
    /\ AtRender("SetShaderTexture")
    /\ ShaderOp(SetShaderTexture(RenderScript[pc.i].tag))
    /\ lastCall' = Called("SetShaderTexture", RenderScript[pc.i].tag, NoImage)
    /\ log' = Append(log, "SetShaderTexture")
    /\ RenderAdvance
    /\ UNCHANGED frame

\* a material selection that throws the material table away behind it
RenderSetShaderMaterialClearing ==
    /\ AtRender("SetShaderMaterial")
    /\ SetShaderMaterial(RenderScript[pc.i].tag)
    /\ m_objectMaterials' = <<>>
    /\ lastCall' = Called("SetShaderMaterial", RenderScript[pc.i].tag, NoImage)
    /\ log' = Append(log, "SetShaderMaterial")
    /\ RenderAdvance
    /\ UNCHANGED <<m_pShaderManager, texVars, glVars, m_basicMeshes, frame>>

RenderSetShaderMaterial ==
    /\ AtRender("SetShaderMaterial")
    /\ ShaderOp(SetShaderMaterial(RenderScript[pc.i].tag))
    /\ lastCall' = Called("SetShaderMaterial", RenderScript[pc.i].tag, NoImage)
    /\ log' = Append(log, "SetShaderMaterial")
    /\ RenderAdvance
    /\ UNCHANGED frame

\* m_basicMeshes->Draw..Mesh(): the draw reads the uniforms and the texture
\* units; it changes none of them
RenderDraw ==
    /\ AtRender("Draw")
    /\ ret' = "void"
    /\ lastCall' = Called("Draw", RenderScript[pc.i].tag, NoImage)
    /\ log' = <<>>
    /\ pushed' = [pushed EXCEPT !.draw = {}]
    /\ RenderAdvance
    /\ UNCHANGED <<m_pShaderManager, m_objectMaterials, texVars, glVars, shader,
                   written, uploads, crashed, m_basicMeshes, frame>>

\* the application: construct, PrepareScene, then RenderScene frame after frame
InitScene == Constructed /\ pc = Pc("prepare", 1)

NextScene ==
    \/ PrepareSetupSceneLights
    \/ PrepareDefineObjectMaterials
    \/ PrepareLoadMesh
    \/ PrepareCreateGLTexture
    \/ EnterRenderScene
    \/ RenderSetTransformations
    \/ RenderSetShaderColor
    \/ RenderSetShaderTexture
    \/ RenderSetShaderMaterial
    \/ RenderDraw

SpecScene == InitScene /\ [][NextScene]_vars

\* ---------------------------------------------------------------- properties
\* the registered slots, by index
Slots == 0..(m_loadedTextures - 1)

TagRegistered(tag) == \E i \in Slots : TexAt(i).tag = tag

\* the lowest slot index that carries the tag
FirstSlot(tag) ==
    CHOOSE i \in Slots : TexAt(i).tag = tag /\ \A j \in Slots : j < i => TexAt(j).tag # tag

MaterialDefined(tag) ==
    \E i \in DOMAIN m_objectMaterials : m_objectMaterials[i].tag = tag

\* the earliest entry of the material table that carries the tag
FirstMaterial(tag) ==
    m_objectMaterials[
        CHOOSE i \in DOMAIN m_objectMaterials :
            /\ m_objectMaterials[i].tag = tag
            /\ \A j \in DOMAIN m_objectMaterials : j < i => m_objectMaterials[j].tag # tag]

\* C1: with a non-empty material table, SetShaderMaterial(t1) for a defined
\* tag t1 followed at once by SetShaderMaterial(t2) for a tag t2 that no entry
\* carries leaves the five material uniforms at the values of t1, and the
\* second call sets no uniform.
C1_StaleRetentionOnMiss ==
    [][ ( /\ lastCall.op = "SetShaderMaterial"
          /\ MaterialDefined(lastCall.tag)
          /\ lastCall'.op = "SetShaderMaterial"
          /\ ~MaterialDefined(lastCall'.tag) )
        => ( /\ shader'.material = MaterialFields(FirstMaterial(lastCall.tag))
             /\ uploads' = <<>> ) ]_vars

\* C2: FindMaterial(tag, ..) returns false whenever no entry carries the tag,
\* and returns true with the five fields of the first matching entry exactly
\* when some entry carries it; the table is not modified (FindMaterial is a
\* function of the table).
C2_FindFailsExactlyOnMiss ==
    \A tag \in MaterialLookupTags : \A material \in {ZeroMaterial, JunkMaterial} :
        LET found == FindMaterial(tag, material) IN
        /\ found.ret = TRUE <=> MaterialDefined(tag)
        /\ MaterialDefined(tag) =>
              MaterialFields(found.material) = MaterialFields(FirstMaterial(tag))

\* RenderScene is about to issue a draw call
AtDraw == pc.phase = "render" /\ RenderScript[pc.i].op = "Draw"

\* C3: when PrepareScene has completed and RenderScene is about to issue its
\* first draw call, every registered slot i is bound to texture unit i.
C3_BoundBeforeFirstDraw ==
    ( /\ AtDraw
      /\ frame = 1
      /\ \A j \in 1..(pc.i - 1) : RenderScript[j].op # "Draw" )
    => \A i \in Slots : glUnits[i] = TexAt(i).ID

ColorOrTexture == {"SetShaderColor", "SetShaderTexture"}

\* C4: at every draw call of RenderScene, the calls issued since the previous
\* draw call are SetTransformations, then SetShaderColor or SetShaderTexture,
\* then SetShaderMaterial.
C4_TupleBeforeEveryDraw ==
    AtDraw =>
        \E x \in ColorOrTexture : log = <<"SetTransformations", x, "SetShaderMaterial">>

\* C4, amended: at every draw call of RenderScene, the calls issued since the
\* previous draw call are SetTransformations, colour-or-texture,
\* SetShaderMaterial in that order, or (the first object of a group that shares
\* one selection) colour-or-texture, SetShaderMaterial, SetTransformations, or
\* (the later objects of the group) SetTransformations alone.
C4_TransformBeforeEveryDraw ==
    AtDraw =>
        \/ \E x \in ColorOrTexture : log = <<"SetTransformations", x, "SetShaderMaterial">>
        \/ \E x \in ColorOrTexture : log = <<x, "SetShaderMaterial", "SetTransformations">>
        \/ log = <<"SetTransformations">>

C4_Witness ==
    /\ AtDraw
    /\ log = <<"SetTransformations">>
    /\ frame = MaxFrames
    /\ RenderScript[pc.i].tag = "sphere"

\* C5: the number of registered slots never exceeds MaxTextures, and
\* CreateGLTexture called with MaxTextures slots registered returns false and
\* writes no slot.
C5_CapacityEnforced ==
    [][ /\ m_loadedTextures' <= MaxTextures
        /\ (lastCall'.op = "CreateGLTexture" /\ m_loadedTextures = MaxTextures)
              => (ret' = "false" /\ texVars' = texVars) ]_vars

\* C6: SetShaderTexture(tag) sets bUseTexture to true and objectTexture to
\* the index of the first slot that carries the tag, or to -1 when no slot
\* carries it; on a miss the flag is still true and nothing is reported.
C6_PushTexture ==
    lastCall.op = "SetShaderTexture" =>
        /\ shader.bUseTexture = TRUE
        /\ shader.objectTexture =
              IF TagRegistered(lastCall.tag) THEN FirstSlot(lastCall.tag) ELSE -1
        /\ ret = "void"
        /\ crashed = FALSE

C6_Witness ==
    /\ lastCall.op = "SetShaderTexture"
    /\ m_loadedTextures > 0
    /\ ~TagRegistered(lastCall.tag)
    /\ shader.objectTexture = -1
    /\ shader.bUseTexture = TRUE

\* C7: CreateGLTexture of an image that decodes with a channel count other
\* than 3 or 4 returns false and leaves the count and every slot as they were.
C7_BadChannelsLeaveSlots ==
    [][ ( /\ lastCall'.op = "CreateGLTexture"
          /\ lastCall'.image.ok
          /\ lastCall'.image.colorChannels \notin {3, 4} )
        => ( /\ ret' = "false"
             /\ m_loadedTextures' = m_loadedTextures
             /\ m_textureIDs' = m_textureIDs
             /\ pastEnd' = pastEnd ) ]_vars

C7_Witness ==
    /\ lastCall.op = "CreateGLTexture"
    /\ lastCall.image.ok
    /\ lastCall.image.colorChannels \notin {3, 4}
    /\ ret = "false"
    /\ m_loadedTextures > 0
    /\ gens > 0

\* C8: when stbi_load gives no image, CreateGLTexture returns false, the
\* count and every slot are as they were, and no texture object is created.
C8_DecodeFailureLeavesState ==
    [][ ( /\ lastCall'.op = "CreateGLTexture"
          /\ ~lastCall'.image.ok )
        => ( /\ ret' = "false"
             /\ texVars' = texVars
             /\ glTextures' = glTextures
             /\ glNext' = glNext ) ]_vars

C8_Witness ==
    /\ lastCall.op = "CreateGLTexture"
    /\ ~lastCall.image.ok
    /\ ret = "false"
    /\ m_loadedTextures > 0
    /\ glTextures # {}

\* C9: after any earlier registrations, CreateGLTexture of a decodable 3- or
\* 4-channel image under a tag returns true, adds exactly one slot, and
\* FindTextureSlot and FindTextureID of the tag then return a slot index and a
\* handle, not -1.
C9_RegisterThenFind ==
    [][ ( /\ lastCall'.op = "CreateGLTexture"
          /\ lastCall'.image.ok
          /\ lastCall'.image.colorChannels \in {3, 4} )
        => ( /\ ret' = "true"
             /\ m_loadedTextures' = m_loadedTextures + 1
             /\ (FindTextureSlot(lastCall.tag))' \in 0..(m_loadedTextures' - 1)
             /\ (FindTextureID(lastCall.tag))' # NotFound ) ]_vars

\* C10: in every state of the registry, FindTextureSlot and FindTextureID of
\* a tag that no registered slot carries return -1, and FindTextureSlot
\* returns an index only of a registered slot that carries the tag.
C10_MissGivesSentinel ==
    \A tag \in LookupTags :
        /\ ~TagRegistered(tag) =>
              (FindTextureSlot(tag) = -1 /\ FindTextureID(tag) = -1)
        /\ FindTextureSlot(tag) \in {-1} \cup Slots
        /\ FindTextureSlot(tag) \in Slots => TexAt(FindTextureSlot(tag)).tag = tag

C10_Witness ==
    /\ m_loadedTextures > 0
    /\ ~TagRegistered("nonexistent")
    /\ \E tag \in RegTags : ~TagRegistered(tag)
    /\ \E tag \in RegTags : TagRegistered(tag) /\ FindTextureSlot(tag) \in Slots
    /\ lastCall.op = "SetShaderTexture" /\ lastCall.tag = "nonexistent"

\* C11: when a tag is registered more than once, FindTextureSlot returns the
\* index of the earliest slot that carries it and FindTextureID the handle of
\* that slot, whatever was registered later.
C11_FirstMatchWins ==
    \A tag \in LookupTags :
        TagRegistered(tag) =>
            /\ FindTextureSlot(tag) = FirstSlot(tag)
            /\ FindTextureID(tag) = TexAt(FirstSlot(tag)).ID

C11_Witness ==
    /\ gens >= 2
    /\ \E tag \in RegTags : \E i \in Slots : \E j \in Slots :
          /\ i < j
          /\ TexAt(i).tag = tag /\ TexAt(j).tag = tag
          /\ TexAt(i).ID # TexAt(j).ID
          /\ FindTextureSlot(tag) = i
          /\ \E k \in Slots : i < k /\ k < j /\ TexAt(k).tag # tag

\* C12: after BindGLTextures, for every i below the number of registered
\* slots, texture unit i is bound to the handle of slot i, and slot i is the
\* (i+1)-th registration that succeeded (a failed one takes no slot).
C12_BindAllInRegistrationOrder ==
    lastCall.op = "BindGLTextures" =>
        /\ Len(registered) = m_loadedTextures
        /\ \A i \in Slots :
              /\ TexAt(i) = registered[i + 1]
              /\ glUnits[i] = registered[i + 1].ID

C12_Witness ==
    /\ lastCall.op = "BindGLTextures"
    /\ m_loadedTextures >= 3
    /\ gens = MaxGen
    /\ glNext - 1 > m_loadedTextures
    /\ glUnits[0] # glUnits[1] /\ glUnits[1] # glUnits[2] /\ glUnits[0] # glUnits[2]
    /\ glUnits[m_loadedTextures - 1] = glNext - 1

\* the number of times glDeleteTextures was given a name
TimesDeleted(name) == Cardinality({k \in DOMAIN glDeleted : glDeleted[k] = name})

\* C13: every handle held in a registered slot is destroyed exactly once in
\* the lifetime of the scene manager: no handle is handed to glDeleteTextures
\* twice, and once the scene manager is torn down every registered handle has
\* been handed to it.
C13_DestroyedExactlyOnce ==
    /\ \A i \in Slots : TimesDeleted(TexAt(i).ID) <= 1
    /\ pc.phase = "destroyed" => \A i \in Slots : TimesDeleted(TexAt(i).ID) = 1

\* the image of the point p under the matrix M (p in thousandths, w = 1)
MatApply(M, p) ==
    [i \in 1..3 |->
        (M[i][1] * p[1] + M[i][2] * p[2] + M[i][3] * p[3] + M[i][4] * One) \div One]

\* the same image taken one geometric step at a time
ScalePoint(v, p) == [i \in 1..3 |-> (v[i] * p[i]) \div One]
QuarterTurns(degrees) == (degrees % 360) \div 90
TurnAboutX(p) == <<p[1], -p[3], p[2]>>
TurnAboutY(p) == <<p[3], p[2], -p[1]>>
TurnAboutZ(p) == <<-p[2], p[1], p[3]>>
RECURSIVE Turn(_, _, _)
Turn(axis, n, p) ==
    IF n = 0 THEN p
    ELSE Turn(axis, n - 1,
              CASE axis = "X" -> TurnAboutX(p)
                [] axis = "Y" -> TurnAboutY(p)
                [] axis = "Z" -> TurnAboutZ(p))
MovePoint(v, p) == [i \in 1..3 |-> p[i] + v[i]]
PlacePoint(a, p) ==
    MovePoint(a[5],
        Turn("Z", QuarterTurns(a[4]),
            Turn("Y", QuarterTurns(a[3]),
                Turn("X", QuarterTurns(a[2]), ScalePoint(a[1], p)))))

\* the points that fix an affine map: the origin and the three unit points
ProbePoints == {<<0, 0, 0>>, <<One, 0, 0>>, <<0, One, 0>>, <<0, 0, One>>}
Identity4 ==
    << <<One, 0, 0, 0>>, <<0, One, 0, 0>>, <<0, 0, One, 0>>, <<0, 0, 0, One>> >>

\* C14: the model matrix SetTransformations uploads maps every point as scaling
\* it, then turning it about X, then Y, then Z, then translating it does; with
\* scale (1,1,1), no rotation and no translation it is the identity.
C14_ModelIsTRzRyRxS ==
    lastCall.op = "SetTransformations" =>
        /\ "model" \in written
        /\ shader.model[4] = <<0, 0, 0, One>>
        /\ \A p \in ProbePoints :
              MatApply(shader.model, p) = PlacePoint(lastCall.args, p)
        /\ lastCall.args = <<(<<One, One, One>>), 0, 0, 0, (<<0, 0, 0>>)>>
              => shader.model = Identity4

C14_Witness ==
    /\ lastCall.op = "SetTransformations"
    /\ lastCall.args = <<(<<2 * One, 3 * One, 4 * One>>), 90, 0, 0,
                         (<<5 * One, -6 * One, 7 * One>>)>>
    /\ MatApply(shader.model, <<0, One, 0>>) = <<5 * One, -6 * One, 10 * One>>

\* C15: SetShaderColor(r, g, b, a) sets bUseTexture to false and objectColor
\* to (r, g, b, a), SetShaderTexture sets bUseTexture to true, and no other
\* binding operation touches bUseTexture: the flag is what the last of the two
\* set.
C15_LastOfColorOrTextureWins ==
    [][ /\ lastCall'.op = "SetShaderColor" =>
              /\ shader'.bUseTexture = FALSE
              /\ shader'.objectColor = lastCall'.args
        /\ lastCall'.op = "SetShaderTexture" => shader'.bUseTexture = TRUE
        /\ lastCall'.op \notin {"SetShaderColor", "SetShaderTexture"} =>
              shader'.bUseTexture = shader.bUseTexture ]_vars

C15_Witness ==
    /\ lastCall.op = "SetTextureUVScale"
    /\ {"objectTexture", "objectColor", "UVscale"} \subseteq written
    /\ shader.objectTexture = 1
    /\ shader.bUseTexture = FALSE
    /\ shader.objectColor = <<200, 200, 200, 1000>>

\* the uniforms each binding operation is responsible for
OwnUniforms(op) ==
    CASE op = "SetTransformations" -> {"model"}
      [] op = "SetShaderColor" -> {"bUseTexture", "objectColor"}
      [] op = "SetShaderTexture" -> {"bUseTexture", "objectTexture"}
      [] op = "SetTextureUVScale" -> {"UVscale"}
      [] op = "SetShaderMaterial" -> {"material"}
      [] OTHER -> {}

\* the names it uploads them under
OwnNames(op) ==
    IF op = "SetShaderMaterial" THEN Range(MaterialUniforms) ELSE OwnUniforms(op)

\* C16: a binding operation changes only its own uniforms: every other uniform
\* keeps its value, no other uniform name is uploaded, and the texture slots
\* and the material table are untouched.
C16_NoImplicitReset ==
    [][ LET own == OwnUniforms(lastCall'.op) IN
        /\ \A f \in DOMAIN shader : f \notin own => shader'[f] = shader[f]
        /\ written' \subseteq written \cup OwnNames(lastCall'.op)
        /\ UNCHANGED <<texVars, m_objectMaterials>> ]_vars

C16_Witness ==
    /\ lastCall.op = "SetTextureUVScale"
    /\ {"model", "objectTexture", "objectColor", "UVscale"} \subseteq written
    /\ Range(MaterialUniforms) \subseteq written
    /\ shader.UVscale = <<2 * One, 3 * One>>
    /\ shader.bUseTexture = TRUE
    /\ shader.objectTexture = 1
    /\ shader.model = GlmScale(<<2 * One, 3 * One, 4 * One>>)
    /\ shader.material = MaterialFields(FirstMaterial("rug"))

\* C17: no step of RenderScene, and no step between two frames, changes the
\* texture slots (count, tags, handles) or the material table: after any
\* number of frames they are what PrepareScene left.
C17_RenderLeavesRegistries ==
    [][ pc.phase \in {"idle", "render"} =>
            /\ m_loadedTextures' = m_loadedTextures
            /\ m_textureIDs' = m_textureIDs
            /\ pastEnd' = pastEnd
            /\ m_objectMaterials' = m_objectMaterials ]_vars

C17_Witness ==
    /\ pc.phase = "idle"
    /\ frame = MaxFrames
    /\ lastCall.op = "Draw"
    /\ m_loadedTextures = 3
    /\ Len(registered) = m_loadedTextures
    /\ \A i \in Slots : TexAt(i) = registered[i + 1]
    /\ m_objectMaterials = SceneMaterials

\* the uniforms the last calls of RenderScene leave behind: the rug's
\* transform, texture and material, and the pillows' colour
FrameEnd ==
    /\ shader.model = Mat4Mul(GlmTranslate(<<2000, 25, -1000>>),
                              GlmScale(<<6000, 50, 6000>>))
    /\ shader.bUseTexture = TRUE
    /\ shader.objectTexture =
          (IF TagRegistered("carpet") THEN FirstSlot("carpet") ELSE NotFound)
    /\ shader.objectColor = <<1000, 1000, 1000, 1000>>
    /\ shader.material = MaterialFields(FirstMaterial("rug"))
    /\ shader.UVscale = <<0, 0>>

\* C18: every frame RenderScene issues the calls of its body in the same
\* order, one after the other to the end, each uploading the uniforms of its
\* operation, whatever the registries hold; and the binding uniforms at the end
\* of a frame are the same after every frame.
C18_RenderRepeatable ==
    [][ pc.phase = "render" =>
           /\ pc' = IF pc.i < Len(RenderScript)
                    THEN Pc("render", pc.i + 1) ELSE Pc("idle", 0)
           /\ lastCall'.op = RenderScript[pc.i].op
           /\ lastCall'.op # "Draw" => Range(uploads') = OwnNames(lastCall'.op)
           /\ lastCall'.op = "Draw" => shader' = shader
           /\ pc'.phase = "idle" => FrameEnd' ]_vars

C18_Witness ==
    /\ pc.phase = "idle"
    /\ frame = MaxFrames
    /\ FrameEnd
    /\ TagRegistered("carpet") /\ FirstSlot("carpet") = 1
    /\ ~TagRegistered("oakd")

\* SetupSceneLights, the first call of PrepareScene, has run
LightsSet == pc # Pc("prepare", 1)

\* C19: once SetupSceneLights has run, bUseLighting is true, point lights 0
\* and 1 are active with the ambient, diffuse and specular colours last given
\* for them, and point lights 2, 3, 4 and the spotlight have each been
\* uploaded as inactive.
C19_LightsAfterSetup ==
    LightsSet =>
        /\ shader.bUseLighting = TRUE /\ "bUseLighting" \in written
        /\ shader.pointLights[0].bActive = TRUE
        /\ shader.pointLights[0].ambient = <<100, 100, 300>>
        /\ shader.pointLights[0].diffuse = <<200, 200, 800>>
        /\ shader.pointLights[0].specular = <<300, 300, 300>>
        /\ shader.pointLights[1].bActive = TRUE
        /\ shader.pointLights[1].ambient = <<100, 100, 80>>
        /\ shader.pointLights[1].diffuse = <<500, 500, 400>>
        /\ shader.pointLights[1].specular = <<300, 300, 300>>
        /\ \A i \in 0..1 : \A f \in {"ambient", "diffuse", "specular", "bActive"} :
              PointLightName(i, f) \in written
        /\ \A i \in 2..4 :
              /\ shader.pointLights[i].bActive = FALSE
              /\ PointLightName(i, "bActive") \in written
        /\ shader.spotLightActive = FALSE /\ "spotLight.bActive" \in written

C19_Witness ==
    /\ pc = Pc("prepare", 2)
    /\ lastCall.op = "SetupSceneLights"
    /\ Len(uploads) = Len(LightCalls)
    /\ shader.pointLights[0].bActive /\ shader.pointLights[1].bActive
    /\ "pointLights[2].bActive" \in written

\* C20: once SetupSceneLights has run, every point light that is active has
\* had its position, ambient, diffuse and specular uniforms set.
C20_ActiveLightsFullyConfigured ==
    LightsSet =>
        \A i \in 0..4 :
            shader.pointLights[i].bActive =>
                \A f \in {"position", "ambient", "diffuse", "specular"} :
                    PointLightName(i, f) \in written

\* the handles the registered slots hold
RegisteredHandles == {TexAt(i).ID : i \in Slots}

\* C21: whenever CreateGLTexture has returned, every GL texture object that
\* exists is held in a registered slot (a texture that was created and not
\* registered has been deleted again), so DestroyGLTextures reaches all of them.
C21_NoOrphanedTexture ==
    glTextures \subseteq RegisteredHandles

\* the uniform names that carry the colour-or-texture selection in effect
SelectionNames ==
    IF shader.bUseTexture THEN {"bUseTexture", "objectTexture"}
    ELSE {"bUseTexture", "objectColor"}

\* C22: at every draw call of RenderScene, in the first frame as in the later
\* ones, the model matrix has been uploaded since the preceding draw call, and
\* the colour-or-texture selection in effect and the five material uniforms
\* have been uploaded since RenderScene was entered.
C22_DrawReadsThisFrame ==
    AtDraw =>
        /\ "model" \in pushed.draw
        /\ SelectionNames \subseteq pushed.frame
        /\ Range(MaterialUniforms) \subseteq pushed.frame

C22_Witness ==
    /\ AtDraw
    /\ frame = MaxFrames
    /\ \A j \in 1..(pc.i - 1) : RenderScript[j].op # "Draw"
    /\ pushed.frame = {"model", "bUseTexture", "objectColor"} \cup Range(MaterialUniforms)
    /\ "objectTexture" \in written

\* the CreateGLTexture calls of PrepareScene
SceneTextureCalls == {k \in DOMAIN PrepareScript : PrepareScript[k].op = "CreateGLTexture"}

\* every CreateGLTexture call of PrepareScene has returned true
AllSceneTexturesLoaded ==
    /\ pc.phase \in {"idle", "render"}
    /\ m_loadedTextures = Cardinality(SceneTextureCalls)

\* C23: after a PrepareScene whose texture loads all succeeded, every
\* SetShaderTexture call of RenderScene finds its tag in a registered slot and
\* uploads that slot's index, and every SetShaderMaterial call finds its tag
\* in the material table and uploads that entry, in every frame.
C23_NoLookupMissInScene ==
    [][ (AllSceneTexturesLoaded /\ pc.phase = "render") =>
           /\ lastCall'.op = "SetShaderTexture" =>
                 /\ TagRegistered(lastCall'.tag)
                 /\ FindTextureSlot(lastCall'.tag) # NotFound
                 /\ shader'.objectTexture = FirstSlot(lastCall'.tag)
           /\ lastCall'.op = "SetShaderMaterial" =>
                 /\ MaterialDefined(lastCall'.tag)
                 /\ lastCall'.tag \in MaterialTags
                 /\ shader'.material = MaterialFields(FirstMaterial(lastCall'.tag)) ]_vars

C23_Witness ==
    /\ AllSceneTexturesLoaded
    /\ pc.phase = "render"
    /\ frame = MaxFrames
    /\ lastCall.op = "SetShaderTexture" /\ lastCall.tag = "carpet"
    /\ shader.objectTexture = 3
    /\ shader.material = MaterialFields(FirstMaterial("pillow"))

====
